---- MODULE Spec2Model ----
(***************************************************************************)
(* NtandoComputer (src/computer.py): deployment of uploaded sites into     *)
(* per-application directories, .ntando.store domain allocation, the       *)
(* applications / backups / analytics tables of ntando_computer.db, the    *)
(* in-memory config (deployed_apps, system_stats), delete, restore and the *)
(* hourly backup sweep.                                                    *)
(*                                                                         *)
(* Request handlers run on Flask's threaded server, so the steps of two    *)
(* requests and of the backup thread interleave.  One action is one        *)
(* database statement, one in-memory update or one file-system call.       *)
(*                                                                         *)
(* Not modelled: timestamps, ports, the config.json mirror written by      *)
(* save_config (it never differs from self.config), what `npm install`     *)
(* itself writes, and the 5 s busy timeout of sqlite3 (a writer that finds *)
(* the database locked by the sweep's open transaction takes its step      *)
(* after the commit).                                                      *)
(***************************************************************************)
EXTENDS Integers, Sequences, FiniteSets, TLC

(* ------------------------------ bounds -------------------------------- *)

\* uuid4 tokens handed out for applications, when requests overlap
MaxApps == 2
\* and when they run one after the other
MaxDeploys == 3
\* sweeps the backup thread runs
MaxSweeps == 1
\* request-handling threads
NumWorkers == 2
\* requests and sweeps in progress at once
MaxConcurrent == 2
\* restores that get as far as the directory
MaxRestores == 1
MaxVisits == 2
MaxLiveSweeps == 2
MaxRaises == 1
MaxChecked == 5

Workers == 1..NumWorkers

(* --------------------------- display names ---------------------------- *)

\* A display name is a sequence of characters; a character is a token.
Upper == {"A", "B"}
LowerAscii == {"a", "b", "d", "e", "i", "l", "m", "n", "o", "p", "r", "s", "t", "w"}
Digits == {"0", "1", "2", "3", "4", "5", "6", "7", "8", "9"}
\* str.isalnum() is Unicode-aware: a non-ASCII letter passes it too
NonAsciiLetters == {"e_acute", "E_ACUTE"}

\* str.lower()
Lower(c) ==
    CASE c = "A" -> "a"
      [] c = "B" -> "b"
      [] c = "E_ACUTE" -> "e_acute"
      [] OTHER -> c

\* .replace(' ', '-').replace('_', '-')
Hyphenate(c) == IF c \in {" ", "_"} THEN "-" ELSE c

IsAlnum(c) == c \in LowerAscii \cup Upper \cup Digits \cup NonAsciiLetters

KeepChar(c) == IsAlnum(c) \/ c = "-"

\* generate_domain, lines 258-259: the slug of a display name
CleanName(app_name) ==
    SelectSeq([i \in 1..Len(app_name) |-> Hyphenate(Lower(app_name[i]))], KeepChar)

\* self.base_domain
BaseDomain == <<".ntando.store">>

DigitOf(n) ==
    CASE n = 0 -> "0" [] n = 1 -> "1" [] n = 2 -> "2" [] n = 3 -> "3"
      [] n = 4 -> "4" [] n = 5 -> "5" [] n = 6 -> "6" [] n = 7 -> "7"
      [] n = 8 -> "8" [] n = 9 -> "9"

\* the decimal text of a counter, as an f-string formats it
RECURSIVE DecStr(_)
DecStr(n) == IF n < 10 THEN <<DigitOf(n)>> ELSE DecStr(n \div 10) \o <<DigitOf(n % 10)>>

\* f"{clean_name}{self.base_domain}"
PlainDomain(clean) == clean \o BaseDomain

\* f"{clean_name}-{counter}{self.base_domain}"
NumberedDomain(clean, counter) == clean \o <<"-">> \o DecStr(counter) \o BaseDomain

\* SELECT id FROM applications WHERE domain = ?
domain_exists(domain, table) == \E r \in table : r.domain = domain

\* the probing loop without its existence check
Probe_unchecked(clean, counter, table) == NumberedDomain(clean, counter)

RECURSIVE Probe(_, _, _)
Probe(clean, counter, table) ==
    IF domain_exists(NumberedDomain(clean, counter), table)
    THEN Probe(clean, counter + 1, table)
    ELSE NumberedDomain(clean, counter)

\* generate_domain without its probing loop
generate_domain_unprobed(app_name, table) == PlainDomain(CleanName(app_name))

\* Each probe is one query.  Rows' domains never leave the table, so the
\* result of the loop is the result of running it at its last probe.
generate_domain(app_name, table) ==
    LET clean == CleanName(app_name)
    IN  IF domain_exists(PlainDomain(clean), table)
        THEN Probe(clean, 1, table)
        ELSE PlainDomain(clean)

\* Names a request may carry: different names that slugify identically.
NameA == <<"A", " ", "b", "!">>
NameB == <<"a", "_", "b">>

\* Names whose slugs are the slug of NameA followed by -app, -web, -site
\* and -online.
NameApp == <<"a", "-", "b", "-", "a", "p", "p">>
NameWeb == <<"a", " ", "b", " ", "w", "e", "b">>
NameSite == <<"A", "_", "B", "_", "s", "i", "t", "e">>
NameOnline == <<"a", "-", "b", "-", "o", "n", "l", "i", "n", "e">>
CheckNames == {NameA, NameApp, NameWeb, NameSite, NameOnline}

\* Candidates sent to check-domain-availability: a slug, the same in upper
\* case, with the suffix, and one no deployment produces.
Candidates ==
    { <<"a", "-", "b">>, <<"A", "-", "B">>, <<"a", "-", "b", ".ntando.store">>, <<"b">> }

\* Names with a tab, a non-ASCII letter, no letter or digit at all, and
\* names whose slug is the numbered form of another name's slug.
NameTab == <<"a", "TAB", "b">>
NameAccent == <<"a", "E_ACUTE">>
NameBang == <<"!">>
NameNumbered == <<"a", "-", "b", "-", "1">>
NameGap == <<"a", "-", "b", "-", "2">>

SlugNames == {NameA, NameB, NameTab, NameAccent, NameBang, NameNumbered, NameGap}

(* ------------------------------ uploads ------------------------------- *)

\* file names, in the order archives list them
FileOrder == <<"index.html", "about.html", "package.json">>
Files == {FileOrder[i] : i \in 1..Len(FileOrder)}

\* the first of a set of entries, in archive order
FirstEntry(entries) ==
    FileOrder[CHOOSE i \in 1..Len(FileOrder) :
                 /\ FileOrder[i] \in entries
                 /\ \A j \in 1..(i - 1) : FileOrder[j] \notin entries]

\* request.files.get('files'): nothing; an archive with its entries, of
\* which `good` can be extracted before extractall raises; or a file
\* that zipfile.is_zipfile rejects
NoUpload == [kind |-> "none", files |-> {}, good |-> {}]
GoodZip == [kind |-> "zip", files |-> {"index.html", "about.html"},
            good |-> {"index.html", "about.html"}]
BadZip == [kind |-> "zip", files |-> {"index.html", "about.html"}, good |-> {"index.html"}]
OneFile == [kind |-> "file", files |-> {"about.html"}, good |-> {"about.html"}]
NoHtmlZip == [kind |-> "zip", files |-> {"package.json"}, good |-> {"package.json"}]
EmptyZip == [kind |-> "zip", files |-> {}, good |-> {}]
PkgZip == [kind |-> "zip", files |-> {"index.html", "package.json"},
           good |-> {"index.html", "package.json"}]

\* The deploy requests tried, under two names that slugify identically:
\* html with an archive, with a corrupt archive and with a single file;
\* nodejs with an archive, without and with a supplied package.json.
DeployForms ==
    { [name |-> NameA, type |-> "html", upload |-> GoodZip, pkg |-> FALSE],
      [name |-> NameB, type |-> "html", upload |-> GoodZip, pkg |-> FALSE],
      [name |-> NameA, type |-> "html", upload |-> BadZip, pkg |-> FALSE],
      [name |-> NameB, type |-> "html", upload |-> OneFile, pkg |-> FALSE],
      [name |-> NameA, type |-> "nodejs", upload |-> GoodZip, pkg |-> FALSE],
      [name |-> NameB, type |-> "nodejs", upload |-> GoodZip, pkg |-> TRUE] }

\* The optional form fields of a deploy request as the client sent them
\* ("absent": not sent), and the route they were posted to.
NoFields ==
    [route |-> "basic", description |-> "absent", public |-> "absent",
     start_command |-> "absent"]

\* the fields of a form; the forms above carry none
Supplied(f) ==
    IF "route" \in DOMAIN f
    THEN [route |-> f.route, description |-> f.description, public |-> f.public,
          start_command |-> f.start_command]
    ELSE NoFields

\* request.form.get(key, default)
FormGet(v, default) == IF v = "absent" THEN default ELSE v

\* str.lower() of the values tried for `public`
LowerWord(v) == IF v = "TRUE" THEN "true" ELSE v

\* What the route passes on as description, public and start_command:
\* deploy_html and deploy_nodejs pass none of them, so the defaults of
\* deploy_html_app / deploy_nodejs_app apply; the enhanced routes read them.
RouteDescription(fields) ==
    IF fields.route = "enhanced" THEN FormGet(fields.description, "") ELSE ""

RoutePublic(fields) ==
    IF fields.route = "enhanced" THEN LowerWord(FormGet(fields.public, "true")) = "true" ELSE TRUE

RouteCommand(fields) ==
    IF fields.route = "enhanced"
    THEN FormGet(fields.start_command, "node server.js")
    ELSE "node server.js"

\* deploys of both types through both routes, with and without the fields
FieldForms ==
    {[name |-> NameA, type |-> t, upload |-> GoodZip, pkg |-> FALSE, route |-> r,
      description |-> d, public |-> p, start_command |-> c] :
        t \in {"html", "nodejs"}, r \in {"basic", "enhanced"},
        d \in {"absent", "about us"}, p \in {"absent", "false", "TRUE"},
        c \in {"absent", "npm start"}}

\* nodejs deploys through both routes: an archive without and with its own
\* package.json, package_json sent or not, start_command sent or not
ManifestForms ==
    {[name |-> NameA, type |-> "nodejs", upload |-> u, pkg |-> k, route |-> r,
      description |-> "absent", public |-> "absent", start_command |-> c] :
        u \in {GoodZip, PkgZip}, k \in BOOLEAN, r \in {"basic", "enhanced"},
        c \in {"absent", "npm start"}}

\* html deploys whose directory holds index.html, another html file only,
\* no html file, or nothing
ServeForms ==
    {[name |-> NameA, type |-> "html", upload |-> u, pkg |-> FALSE] :
        u \in {GoodZip, OneFile, NoHtmlZip, EmptyZip}}

\* html archives deployed under a name and under the names whose slugs
\* are its first suggestions
CheckForms ==
    {[name |-> n, type |-> "html", upload |-> GoodZip, pkg |-> FALSE] : n \in CheckNames}

\* html archives deployed under every name
NameForms ==
    {[name |-> n, type |-> "html", upload |-> GoodZip, pkg |-> FALSE] : n \in SlugNames}

\* the deploy request tried where deploys meet deletes, restores and sweeps
CoreForms ==
    {f \in DeployForms : f.name = NameA /\ f.type = "html" /\ f.upload = GoodZip}

(* ------------------------------- state -------------------------------- *)

VARIABLES
    db_apps,        \* table applications: a set of rows
    db_backups,     \* table backups (committed rows)
    analytics,      \* table analytics: <<app_id, event_type>> -> rows
    deployed_apps,  \* self.config["deployed_apps"]: app_id -> app_info
    system_stats,   \* self.config["system_stats"]
    dirs,           \* apps/<app_id>: existing directory -> its files
    zips,           \* backups/<backup_id>.zip: existing archive -> its files
    next_app,       \* next unused application token
    next_backup,    \* next unused backup token
    req,            \* per request thread: the request in progress
    sweep,          \* the backup thread (runs: sweeps it has started; seen:
                    \* the applications this sweep selected; printed: the
                    \* lines it has printed; faults: the storage may fail)
    responses,      \* application records returned by deploys, in order
    out,            \* the answer sent by the step just taken, if any
    restores        \* restores that have got as far as the directory

vars == <<db_apps, db_backups, analytics, deployed_apps, system_stats, dirs,
          zips, next_app, next_backup, req, sweep, responses, out, restores>>

EventTypes == {"deploy", "visit", "restore"}

NoDir == [exists |-> FALSE, files |-> {}]

\* The content of an application directory's package.json: none, the one
\* the archive held, the text the caller supplied, or the basic one with
\* its start script.
NoManifest == [origin |-> "none", start |-> ""]

NoCheck == [candidate |-> <<>>, domain |-> <<>>, available |-> FALSE, suggestions |-> <<>>]

Idle ==
    [op |-> "idle", pc |-> "idle", id |-> 0, name |-> <<>>, type |-> "none",
     domain |-> <<>>, upload |-> NoUpload, pkg |-> FALSE, bid |-> 0,
     listing |-> {}, todo |-> {}, before |-> NoDir, fields |-> NoFields,
     manifest |-> NoManifest, file |-> "none", check |-> NoCheck]

\* The answer a request thread sends: what it was asked (op, id, bid, and
\* for a deploy the name, type, form fields and whether package_json was
\* sent), the status, for a restore the directory as it was when the
\* restore began, for a deploy the package.json it left on disk, and for
\* serve-application the file sent, and for check-domain-availability the
\* candidate with the domain, available and suggestions of the reply.
Answer(op, status, r) ==
    [op |-> op, status |-> status, id |-> r.id, bid |-> r.bid, before |-> r.before,
     name |-> r.name, type |-> r.type, fields |-> r.fields, pkg |-> r.pkg,
     manifest |-> r.manifest, file |-> r.file, check |-> r.check]

NoAnswer == Answer("none", "none", Idle)

SetKey(f, k, v) == [x \in DOMAIN f \cup {k} |-> IF x = k THEN v ELSE f[x]]
DelKey(f, k) == [x \in DOMAIN f \ {k} |-> f[x]]

\* os.path.exists(path) and the directory's content
DirState(id) ==
    IF id \in DOMAIN dirs
    THEN [exists |-> TRUE, files |-> dirs[id]]
    ELSE NoDir

\* sqlite3 opens a transaction at the sweep's first INSERT and holds the
\* write lock until its commit; other writers wait.
WriteLockFree == sweep.pending = {}

Init ==
    /\ db_apps = {}
    /\ db_backups = {}
    /\ analytics = [e \in {} |-> 0]
    /\ deployed_apps = [x \in {} |-> 0]
    /\ system_stats = [total_apps |-> 0, html_apps |-> 0, nodejs_apps |-> 0,
                       eternal_apps |-> 0]
    /\ dirs = [x \in {} |-> {}]
    /\ zips = [x \in {} |-> {}]
    /\ next_app = 1
    /\ next_backup = 1
    /\ req = [w \in Workers |-> Idle]
    /\ sweep = [pc |-> "sleep", todo |-> {}, cur |-> 0, bid |-> 0,
                listing |-> {}, pending |-> {}, runs |-> 0, seen |-> {},
                printed |-> <<>>, faults |-> FALSE, raised |-> 0, wait |-> 0]
    /\ responses = <<>>
    /\ out = NoAnswer
    /\ restores = 0

(* ------------------------------- deploy ------------------------------- *)

\* the request thread w answers and is free again
Finish(w, op, status) ==
    /\ req' = [req EXCEPT ![w] = Idle]
    /\ out' = Answer(op, status, req[w])

\* a rejection that comes only after the uuid4 token has been drawn
DeployReject_allocating(w) ==
    /\ req[w].op = "idle"
    /\ Finish(w, "deploy", "bad_request")
    /\ next_app' = next_app + 1
    /\ UNCHANGED <<db_apps, db_backups, analytics, deployed_apps, system_stats,
                   dirs, zips, next_backup, sweep, responses, restores>>

\* deploy_html / deploy_nodejs (and the enhanced routes): no file, 400
DeployReject(w) ==
    /\ req[w].op = "idle"
    /\ Finish(w, "deploy", "bad_request")
    /\ UNCHANGED <<db_apps, db_backups, analytics, deployed_apps, system_stats,
                   dirs, zips, next_app, next_backup, sweep, responses, restores>>

\* uuid4 token and generate_domain
DeployAllocate(w, cap, type, name, upload, pkg, fields) ==
    /\ req[w].op = "idle"
    /\ next_app <= cap
    /\ req' = [req EXCEPT ![w] =
                 [Idle EXCEPT !.op = "deploy", !.pc = "materialize",
                     !.id = next_app, !.name = name, !.type = type,
                     !.domain = generate_domain(name, db_apps),
                     !.upload = upload, !.pkg = pkg, !.fields = fields]]
    /\ next_app' = next_app + 1
    /\ out' = NoAnswer
    /\ UNCHANGED <<db_apps, db_backups, analytics, deployed_apps, system_stats,
                   dirs, zips, next_backup, sweep, responses, restores>>

\* The files a deployment leaves in its directory when nothing raises.
\* html: the archive's entries or the single file.  nodejs: the archive's
\* entries, the supplied package.json, and after a failed npm install
\* without a supplied one the basic package.json.
Materialized(type, upload, pkg, npm) ==
    LET extracted == IF upload.kind = "zip" \/ type = "html" THEN upload.files ELSE {}
        supplied == IF type = "nodejs" /\ pkg THEN {"package.json"} ELSE {}
        basic == IF type = "nodejs" /\ npm = "nonzero" /\ ~pkg THEN {"package.json"} ELSE {}
    IN  extracted \cup supplied \cup basic

\* What package.json holds after the same steps: f.write(package_json)
\* overwrites the archive's; json.dump(basic_package) runs only in the
\* CalledProcessError handler and only without a supplied package_json.
ManifestOf(type, upload, pkg, npm, start_command) ==
    IF type = "nodejs" /\ pkg THEN [origin |-> "supplied", start |-> ""]
    ELSE IF type = "nodejs" /\ npm = "nonzero"
         THEN [origin |-> "basic", start |-> start_command]
    ELSE IF "package.json" \in upload.files /\ (upload.kind = "zip" \/ type = "html")
         THEN [origin |-> "archive", start |-> ""]
    ELSE NoManifest

\* os.makedirs, extraction, and for nodejs package.json and npm install.
\* The directory is not yet named by any record: no other thread reaches it.
DeployMaterialize(w) ==
    /\ req[w].op = "deploy" /\ req[w].pc = "materialize"
    /\ LET r == req[w] IN
       \/ \* everything extracted; npm (nodejs) ran, whatever its exit code
          /\ r.upload.good = r.upload.files
          /\ \E npm \in {"ok", "nonzero"} :
                /\ r.type = "html" => npm = "ok"
                /\ dirs' = SetKey(dirs, r.id, Materialized(r.type, r.upload, r.pkg, npm))
                /\ req' = [req EXCEPT ![w].pc = "save",
                             ![w].manifest = ManifestOf(r.type, r.upload, r.pkg, npm,
                                                        RouteCommand(r.fields))]
          /\ out' = NoAnswer
       \/ \* extractall raises after extracting some of the entries: 500
          /\ r.upload.good # r.upload.files
          /\ dirs' = SetKey(dirs, r.id, r.upload.good)
          /\ Finish(w, "deploy", "archive_error")
       \/ \* nodejs: npm is not installed, FileNotFoundError is not caught: 500
          /\ r.type = "nodejs" /\ r.upload.good = r.upload.files
          /\ dirs' = SetKey(dirs, r.id, Materialized(r.type, r.upload, r.pkg, "ok"))
          /\ Finish(w, "deploy", "error")
    /\ UNCHANGED <<db_apps, db_backups, analytics, deployed_apps, system_stats,
                   zips, next_app, next_backup, sweep, responses, restores>>

\* the app_info dictionary, which is also the row's content
AppInfo(r) ==
    [id |-> r.id, name |-> r.name, type |-> r.type, domain |-> r.domain,
     path |-> r.id, status |-> "running",
     description |-> RouteDescription(r.fields), public |-> RoutePublic(r.fields),
     command |-> IF r.type = "nodejs" THEN RouteCommand(r.fields) ELSE "none"]

\* INSERT with no conflict clause and no constraint: the row is added
InsertUnconstrained(table, row) == table \cup {row}

\* INSERT OR REPLACE INTO applications: rows that conflict on the primary
\* key id or on the UNIQUE column domain are deleted, then the row is added
InsertOrReplace(table, row) ==
    {r \in table : r.id # row.id /\ r.domain # row.domain} \cup {row}

\* save_application_to_db
DeploySave(w) ==
    /\ req[w].op = "deploy" /\ req[w].pc = "save"
    /\ WriteLockFree
    /\ db_apps' = InsertOrReplace(db_apps, AppInfo(req[w]))
    /\ req' = [req EXCEPT ![w].pc = "config"]
    /\ out' = NoAnswer
    /\ UNCHANGED <<db_backups, analytics, deployed_apps, system_stats, dirs,
                   zips, next_app, next_backup, sweep, responses, restores>>

\* self.config["deployed_apps"][app_id] = app_info, the counters, save_config
DeployUpdateConfig(w) ==
    /\ req[w].op = "deploy" /\ req[w].pc = "config"
    /\ deployed_apps' = SetKey(deployed_apps, req[w].id, AppInfo(req[w]))
    /\ system_stats' =
         [system_stats EXCEPT
            !.html_apps = @ + (IF req[w].type = "html" THEN 1 ELSE 0),
            !.nodejs_apps = @ + (IF req[w].type = "nodejs" THEN 1 ELSE 0),
            !.total_apps = @ + 1,
            !.eternal_apps = @ + 1]
    /\ req' = [req EXCEPT ![w].pc = "track"]
    /\ out' = NoAnswer
    /\ UNCHANGED <<db_apps, db_backups, analytics, dirs, zips, next_app,
                   next_backup, sweep, responses, restores>>

EventCount(table, app_id, event_type) ==
    IF <<app_id, event_type>> \in DOMAIN table THEN table[<<app_id, event_type>>] ELSE 0

\* track_analytics: one more row for (app_id, event_type)
TrackEvent(table, app_id, event_type) ==
    SetKey(table, <<app_id, event_type>>, EventCount(table, app_id, event_type) + 1)

DeployTrack(w) ==
    /\ req[w].op = "deploy" /\ req[w].pc = "track"
    /\ WriteLockFree
    /\ analytics' = TrackEvent(analytics, req[w].id, "deploy")
    /\ req' = [req EXCEPT ![w].pc = "backup"]
    /\ out' = NoAnswer
    /\ UNCHANGED <<db_apps, db_backups, deployed_apps, system_stats, dirs,
                   zips, next_app, next_backup, sweep, responses, restores>>

\* the deploy returns app_info
Respond(w) ==
    /\ responses' = Append(responses, AppInfo(req[w]))
    /\ Finish(w, "deploy", "ok")

\* a backups row
BackupRow(bid, app_id, files) ==
    [id |-> bid, app_id |-> app_id, backup_path |-> bid, size |-> Cardinality(files)]

\* create_app_backup up to the start of shutil.make_archive: the row is
\* looked up by id, the directory is listed
DeployBackupBegin(w) ==
    /\ req[w].op = "deploy" /\ req[w].pc = "backup"
    /\ IF (\E r \in db_apps : r.id = req[w].id) /\ req[w].id \in DOMAIN dirs
       THEN /\ req' = [req EXCEPT ![w].pc = "archiving", ![w].bid = next_backup,
                                  ![w].listing = dirs[req[w].id]]
            /\ next_backup' = next_backup + 1
            /\ out' = NoAnswer
            /\ UNCHANGED responses
       ELSE /\ Respond(w)
            /\ UNCHANGED next_backup
    /\ UNCHANGED <<db_apps, db_backups, analytics, deployed_apps, system_stats,
                   dirs, zips, next_app, sweep, restores>>

\* make_archive reads the files it listed; one that is gone raises (the
\* storage faults modelled are the ones other requests cause)
ArchiveReadable(app_id, listing) ==
    app_id \in DOMAIN dirs /\ listing \subseteq dirs[app_id]

\* the rest of create_app_backup: the archive is written and its row
\* inserted and committed, or an exception is caught and printed
DeployBackupEnd(w) ==
    /\ req[w].op = "deploy" /\ req[w].pc = "archiving"
    /\ \/ /\ ArchiveReadable(req[w].id, req[w].listing)
          /\ WriteLockFree
          /\ zips' = SetKey(zips, req[w].bid, req[w].listing)
          /\ db_backups' = db_backups \cup
                              {BackupRow(req[w].bid, req[w].id, req[w].listing)}
       \/ /\ ~ArchiveReadable(req[w].id, req[w].listing)
          /\ UNCHANGED <<zips, db_backups>>
    /\ Respond(w)
    /\ UNCHANGED <<db_apps, analytics, deployed_apps, system_stats, dirs,
                   next_app, next_backup, sweep, restores>>

(* ------------------------------- delete ------------------------------- *)

\* delete_app_api / delete_app: the lookup in deployed_apps, else 404
DeleteStart(w, id) ==
    /\ req[w].op = "idle"
    /\ IF id \in DOMAIN deployed_apps
       THEN /\ req' = [req EXCEPT ![w] =
                         [Idle EXCEPT !.op = "delete", !.pc = "rmtree", !.id = id,
                                      !.type = deployed_apps[id].type]]
            /\ out' = NoAnswer
       ELSE /\ req' = req
            /\ out' = Answer("delete", "not_found", [Idle EXCEPT !.id = id])
    /\ UNCHANGED <<db_apps, db_backups, analytics, deployed_apps, system_stats,
                   dirs, zips, next_app, next_backup, sweep, responses, restores>>

\* if os.path.exists(path): shutil.rmtree(path)
RmTree(tree, id) == DelKey(tree, id)

DeleteRmTree(w) ==
    /\ req[w].op = "delete" /\ req[w].pc = "rmtree"
    /\ dirs' = RmTree(dirs, req[w].id)
    /\ req' = [req EXCEPT ![w].pc = "config"]
    /\ out' = NoAnswer
    /\ UNCHANGED <<db_apps, db_backups, analytics, deployed_apps, system_stats,
                   zips, next_app, next_backup, sweep, responses, restores>>

\* DeleteUpdateConfig without the decrement of the counter of its type
DeleteUpdateConfig_totalonly(w) ==
    /\ req[w].op = "delete" /\ req[w].pc = "config"
    /\ IF req[w].id \in DOMAIN deployed_apps
       THEN /\ deployed_apps' = DelKey(deployed_apps, req[w].id)
            /\ system_stats' =
                 [system_stats EXCEPT
                    !.total_apps = @ - 1]
            /\ Finish(w, "delete", "ok")
       ELSE /\ Finish(w, "delete", "error")
            /\ UNCHANGED <<deployed_apps, system_stats>>
    /\ UNCHANGED <<db_apps, db_backups, analytics, dirs, zips, next_app,
                   next_backup, sweep, responses, restores>>

\* DeleteUpdateConfig with the application's backup rows deleted along
\* with its config entry
DeleteUpdateConfig_cascading(w) ==
    /\ req[w].op = "delete" /\ req[w].pc = "config"
    /\ IF req[w].id \in DOMAIN deployed_apps
       THEN /\ deployed_apps' = DelKey(deployed_apps, req[w].id)
            /\ system_stats' =
                 [system_stats EXCEPT
                    !.total_apps = @ - 1,
                    !.html_apps = @ - (IF req[w].type = "html" THEN 1 ELSE 0),
                    !.nodejs_apps = @ - (IF req[w].type = "nodejs" THEN 1 ELSE 0)]
            /\ db_backups' = {b \in db_backups : b.app_id # req[w].id}
            /\ Finish(w, "delete", "ok")
       ELSE /\ Finish(w, "delete", "error")
            /\ UNCHANGED <<deployed_apps, system_stats, db_backups>>
    /\ UNCHANGED <<db_apps, analytics, dirs, zips, next_app,
                   next_backup, sweep, responses, restores>>

\* del self.config["deployed_apps"][app_id] (KeyError, 500, when another
\* delete got there first), the counters, save_config.  No statement of
\* delete_app touches the applications table.
DeleteUpdateConfig(w) ==
    /\ req[w].op = "delete" /\ req[w].pc = "config"
    /\ IF req[w].id \in DOMAIN deployed_apps
       THEN /\ deployed_apps' = DelKey(deployed_apps, req[w].id)
            /\ system_stats' =
                 [system_stats EXCEPT
                    !.total_apps = @ - 1,
                    !.html_apps = @ - (IF req[w].type = "html" THEN 1 ELSE 0),
                    !.nodejs_apps = @ - (IF req[w].type = "nodejs" THEN 1 ELSE 0)]
            /\ Finish(w, "delete", "ok")
       ELSE /\ Finish(w, "delete", "error")
            /\ UNCHANGED <<deployed_apps, system_stats>>
    /\ UNCHANGED <<db_apps, db_backups, analytics, dirs, zips, next_app,
                   next_backup, sweep, responses, restores>>

(* ------------------------------- restore ------------------------------ *)

\* RestoreStart with the backup looked up by its id alone
RestoreStart_anyapp(w, id, bid) ==
    /\ req[w].op = "idle"
    /\ IF /\ \E b \in db_backups : b.id = bid /\ b.backup_path \in DOMAIN zips
          /\ \E r \in db_apps : r.id = id
       THEN /\ req' = [req EXCEPT ![w] =
                         [Idle EXCEPT !.op = "restore", !.pc = "rmtree", !.id = id,
                                      !.bid = bid, !.todo = zips[bid],
                                      !.before = DirState(id)]]
            /\ restores < MaxRestores
            /\ restores' = restores + 1
            /\ out' = NoAnswer
       ELSE /\ req' = req
            /\ out' = Answer("restore", "not_found", Idle)
            /\ UNCHANGED restores
    /\ UNCHANGED <<db_apps, db_backups, analytics, deployed_apps, system_stats,
                   dirs, zips, next_app, next_backup, sweep, responses>>

\* restore_app / restore_from_backup: the two SELECTs and os.path.exists;
\* return False is answered 404
RestoreStart(w, id, bid) ==
    /\ req[w].op = "idle"
    /\ IF /\ \E b \in db_backups : b.app_id = id /\ b.id = bid /\ b.backup_path \in DOMAIN zips
          /\ \E r \in db_apps : r.id = id
       THEN /\ req' = [req EXCEPT ![w] =
                         [Idle EXCEPT !.op = "restore", !.pc = "rmtree", !.id = id,
                                      !.bid = bid, !.todo = zips[bid],
                                      !.before = DirState(id)]]
            /\ restores < MaxRestores
            /\ restores' = restores + 1
            /\ out' = NoAnswer
       ELSE /\ req' = req
            /\ out' = Answer("restore", "not_found", Idle)
            /\ UNCHANGED restores
    /\ UNCHANGED <<db_apps, db_backups, analytics, deployed_apps, system_stats,
                   dirs, zips, next_app, next_backup, sweep, responses>>

\* if os.path.exists(app_path): shutil.rmtree(app_path)
RestoreRmTree(w) ==
    /\ req[w].op = "restore" /\ req[w].pc = "rmtree"
    /\ dirs' = RmTree(dirs, req[w].id)
    /\ req' = [req EXCEPT ![w].pc = "extract"]
    /\ out' = NoAnswer
    /\ UNCHANGED <<db_apps, db_backups, analytics, deployed_apps, system_stats,
                   zips, next_app, next_backup, sweep, responses, restores>>

\* ZipFile.extract of one entry: missing directories are created
ExtractEntry(tree, id, f) ==
    SetKey(tree, id, (IF id \in DOMAIN tree THEN tree[id] ELSE {}) \cup {f})

\* zip_ref.extractall(app_path), entry by entry; an entry that cannot be
\* written raises, and restore_app answers 500
RestoreExtract(w) ==
    /\ req[w].op = "restore" /\ req[w].pc = "extract"
    /\ req[w].todo # {}
    /\ \/ /\ dirs' = ExtractEntry(dirs, req[w].id, FirstEntry(req[w].todo))
          /\ req' = [req EXCEPT ![w].todo = @ \ {FirstEntry(req[w].todo)}]
          /\ out' = NoAnswer
       \/ /\ Finish(w, "restore", "error")
          /\ UNCHANGED dirs
    /\ UNCHANGED <<db_apps, db_backups, analytics, deployed_apps, system_stats,
                   zips, next_app, next_backup, sweep, responses, restores>>

\* return True; restore_app tracks the restore and answers success
RestoreTrack(w) ==
    /\ req[w].op = "restore" /\ req[w].pc = "extract"
    /\ req[w].todo = {}
    /\ WriteLockFree
    /\ analytics' = TrackEvent(analytics, req[w].id, "restore")
    /\ Finish(w, "restore", "ok")
    /\ UNCHANGED <<db_apps, db_backups, deployed_apps, system_stats, dirs, zips,
                   next_app, next_backup, sweep, responses, restores>>

(* ------------------------------- reads --------------------------------- *)

\* request.endpoint, the view function's name, split at its underscores
ServeEndpoint == <<"serve", "app">>
AnalyticsEndpoint == <<"app", "analytics">>
BackupsEndpoint == <<"app", "backups">>
GetEndpoint == <<"get", "app", "api">>

\* the operation an endpoint answers
EndpointOp(endpoint) ==
    CASE endpoint = ServeEndpoint -> "serve"
      [] endpoint = AnalyticsEndpoint -> "analytics"
      [] endpoint = BackupsEndpoint -> "backups"
      [] endpoint = GetEndpoint -> "get"

\* request.endpoint.startswith('app_')
StartsWithApp(endpoint) == Len(endpoint) >= 2 /\ endpoint[1] = "app"

\* the before_request hook: a visit row for the app_id of the URL when the
\* endpoint's name starts with app_
track_request(endpoint, app_id, table) ==
    IF StartsWithApp(endpoint) THEN TrackEvent(table, app_id, "visit") ELSE table

\* file.endswith('.html')
EndsWithHtml(file) == file \in {"index.html", "about.html"}

\* a request that only reads: the hook, then the answer
ReadAnswer(endpoint, id, status, file) ==
    /\ analytics' = track_request(endpoint, id, analytics)
    /\ analytics' # analytics => WriteLockFree
    /\ EventCount(analytics', id, "visit") <= MaxVisits
    /\ out' = Answer(EndpointOp(endpoint), status,
                     [Idle EXCEPT !.id = id, !.file = file])
    /\ UNCHANGED <<db_apps, db_backups, deployed_apps, system_stats, dirs, zips,
                   next_app, next_backup, req, sweep, responses, restores>>

\* GET /app/<app_id>.  os.listdir of a missing directory raises
\* FileNotFoundError, which nothing catches: 500.  The html file sent when
\* there is no index.html is the first in os.listdir order, any of them.
serve_app(id) ==
    IF id \notin DOMAIN deployed_apps
    THEN ReadAnswer(ServeEndpoint, id, "not_found", "none")
    ELSE IF deployed_apps[id].type = "html"
    THEN IF id \in DOMAIN dirs /\ "index.html" \in dirs[id]
         THEN ReadAnswer(ServeEndpoint, id, "ok", "index.html")
         ELSE IF id \notin DOMAIN dirs
         THEN ReadAnswer(ServeEndpoint, id, "error", "none")
         ELSE IF \E f \in dirs[id] : EndsWithHtml(f)
         THEN \E f \in dirs[id] :
                 EndsWithHtml(f) /\ ReadAnswer(ServeEndpoint, id, "ok", f)
         ELSE ReadAnswer(ServeEndpoint, id, "not_found", "none")
    ELSE ReadAnswer(ServeEndpoint, id, "page", "none")

\* GET /api/apps/<app_id>/analytics: 404 without an applications row
app_analytics(id) ==
    IF \E r \in db_apps : r.id = id
    THEN ReadAnswer(AnalyticsEndpoint, id, "ok", "none")
    ELSE ReadAnswer(AnalyticsEndpoint, id, "not_found", "none")

\* GET /api/apps/<app_id>/backups: the rows of that app_id, none included
app_backups(id) == ReadAnswer(BackupsEndpoint, id, "ok", "none")

\* GET /api/apps/<app_id>
get_app_api(id) ==
    IF id \in DOMAIN deployed_apps
    THEN ReadAnswer(GetEndpoint, id, "ok", "none")
    ELSE ReadAnswer(GetEndpoint, id, "not_found", "none")

(* ---------------------------- domain check ----------------------------- *)

\* check_domain_availability without the suffix added to a bare candidate
CheckedDomain_bare(candidate) == [i \in 1..Len(candidate) |-> Lower(candidate[i])]

\* check_domain_availability: the candidate lower-cased, the suffix added
\* when it does not end with it
CheckedDomain(candidate) ==
    LET low == [i \in 1..Len(candidate) |-> Lower(candidate[i])]
    IN  IF Len(low) > 0 /\ <<low[Len(low)]>> = BaseDomain THEN low ELSE low \o BaseDomain

\* the suffixes get_domain_suggestions tries, in its order
SuggestionSuffixes ==
    << <<"a", "p", "p">>, <<"w", "e", "b">>, <<"s", "i", "t", "e">>,
       <<"o", "n", "l", "i", "n", "e">>, <<"d", "e", "m", "o">>, <<"p", "r", "o">> >>

NotBaseDomain(c) == <<c>> # BaseDomain

\* the loop of get_domain_suggestions from the i-th suffix on
RECURSIVE SuggestFrom(_, _, _, _)
SuggestFrom(base_name, i, suggestions, table) ==
    IF i > Len(SuggestionSuffixes) THEN suggestions
    ELSE LET suggestion == base_name \o <<"-">> \o SuggestionSuffixes[i] \o BaseDomain
             found == IF domain_exists(suggestion, table)
                      THEN suggestions ELSE Append(suggestions, suggestion)
         IN  IF Len(found) >= 3 THEN found
             ELSE SuggestFrom(base_name, i + 1, found, table)

\* base_name = domain.replace(self.base_domain, ''), then the loop
get_domain_suggestions(domain, table) ==
    SuggestFrom(SelectSeq(domain, NotBaseDomain), 1, <<>>, table)

\* POST /api/domains/check
check_domain_availability(candidate) ==
    LET domain_name == CheckedDomain(candidate)
        available == ~domain_exists(domain_name, db_apps)
    IN  /\ out' = Answer("check", "ok",
                     [Idle EXCEPT !.check =
                        [candidate |-> candidate, domain |-> domain_name,
                         available |-> available,
                         suggestions |-> IF available THEN <<>>
                                         ELSE get_domain_suggestions(domain_name, db_apps)]])
        /\ UNCHANGED <<db_apps, db_backups, analytics, deployed_apps, system_stats,
                       dirs, zips, next_app, next_backup, req, sweep, responses,
                       restores>>

(* ----------------------------- backup sweep ---------------------------- *)

\* SELECT id, name, path FROM applications WHERE status = 'running'
RunningApps == {r.id : r \in {x \in db_apps : x.status = "running"}}

\* create_automated_backups begins, on storage that may fail (disk full,
\* permissions) or on storage that fails only when files have vanished
\* backup_task's next call of create_automated_backups, the cap-th at most:
\* the running applications are selected
SweepWake(cap, faults) ==
    /\ sweep.pc = "sleep"
    /\ sweep.runs < cap
    /\ sweep' = [sweep EXCEPT !.pc = "loop", !.runs = @ + 1, !.todo = RunningApps,
                              !.seen = RunningApps, !.faults = faults]
    /\ out' = NoAnswer
    /\ UNCHANGED <<db_apps, db_backups, analytics, deployed_apps, system_stats,
                   dirs, zips, next_app, next_backup, req, responses, restores>>

SweepStart(faults) == SweepWake(MaxSweeps, faults)

\* SweepRaises with the exception ending backup_task
SweepRaises_ending(cap) ==
    /\ sweep.pc = "sleep"
    /\ sweep.runs < cap /\ sweep.raised < MaxRaises
    /\ sweep' = [sweep EXCEPT !.pc = "ended", !.runs = @ + 1, !.raised = @ + 1]
    /\ out' = NoAnswer
    /\ UNCHANGED <<db_apps, db_backups, analytics, deployed_apps, system_stats,
                   dirs, zips, next_app, next_backup, req, responses, restores>>

\* create_automated_backups raises before its loop (sqlite3.connect or the
\* SELECT fails): backup_task catches the exception, prints it, sleeps 300
\* seconds and goes round its while True again
SweepRaises(cap) ==
    /\ sweep.pc = "sleep"
    /\ sweep.runs < cap /\ sweep.raised < MaxRaises
    /\ sweep' = [sweep EXCEPT !.runs = @ + 1, !.raised = @ + 1, !.wait = 300]
    /\ out' = NoAnswer
    /\ UNCHANGED <<db_apps, db_backups, analytics, deployed_apps, system_stats,
                   dirs, zips, next_app, next_backup, req, responses, restores>>

\* the loop body up to the start of shutil.make_archive; an application
\* whose directory is missing is passed over and nothing is printed
SweepBegin ==
    /\ sweep.pc = "loop"
    /\ \E a \in sweep.todo :
          IF a \in DOMAIN dirs
          THEN /\ sweep' = [sweep EXCEPT !.pc = "archiving", !.todo = @ \ {a}, !.cur = a,
                                         !.bid = next_backup, !.listing = dirs[a]]
               /\ next_backup' = next_backup + 1
          ELSE /\ sweep' = [sweep EXCEPT !.todo = @ \ {a}]
               /\ UNCHANGED next_backup
    /\ out' = NoAnswer
    /\ UNCHANGED <<db_apps, db_backups, analytics, deployed_apps, system_stats,
                   dirs, zips, next_app, req, responses, restores>>

\* SweepEnd with the exception leaving create_automated_backups: nothing
\* is committed and backup_task goes to sleep
SweepEnd_aborting ==
    /\ sweep.pc = "archiving"
    /\ \/ /\ ArchiveReadable(sweep.cur, sweep.listing)
          /\ zips' = SetKey(zips, sweep.bid, sweep.listing)
          /\ sweep' = [sweep EXCEPT !.pc = "loop", !.cur = 0, !.bid = 0, !.listing = {},
                          !.pending = @ \cup {BackupRow(sweep.bid, sweep.cur, sweep.listing)},
                          !.printed = Append(@, <<"created", sweep.cur>>)]
       \/ /\ ~ArchiveReadable(sweep.cur, sweep.listing) \/ sweep.faults
          /\ sweep' = [sweep EXCEPT !.pc = "sleep", !.todo = {}, !.cur = 0, !.bid = 0,
                          !.listing = {}, !.pending = {}, !.seen = {},
                          !.printed = <<>>, !.faults = FALSE]
          /\ UNCHANGED zips
    /\ out' = NoAnswer
    /\ UNCHANGED <<db_apps, db_backups, analytics, deployed_apps, system_stats,
                   dirs, next_app, next_backup, req, responses, restores>>

\* the archive is written, its row inserted (not yet committed) and
\* "Backup created" printed, or the exception is caught and "Backup
\* failed" printed; the loop goes on
SweepEnd ==
    /\ sweep.pc = "archiving"
    /\ \/ /\ ArchiveReadable(sweep.cur, sweep.listing)
          /\ zips' = SetKey(zips, sweep.bid, sweep.listing)
          /\ sweep' = [sweep EXCEPT !.pc = "loop", !.cur = 0, !.bid = 0, !.listing = {},
                          !.pending = @ \cup {BackupRow(sweep.bid, sweep.cur, sweep.listing)},
                          !.printed = Append(@, <<"created", sweep.cur>>)]
       \/ /\ ~ArchiveReadable(sweep.cur, sweep.listing) \/ sweep.faults
          /\ sweep' = [sweep EXCEPT !.pc = "loop", !.cur = 0, !.bid = 0, !.listing = {},
                          !.printed = Append(@, <<"failed", sweep.cur>>)]
          /\ UNCHANGED zips
    /\ out' = NoAnswer
    /\ UNCHANGED <<db_apps, db_backups, analytics, deployed_apps, system_stats,
                   dirs, next_app, next_backup, req, responses, restores>>

\* conn.commit() after the loop; backup_task then sleeps 3600 seconds
SweepCommit ==
    /\ sweep.pc = "loop" /\ sweep.todo = {}
    /\ db_backups' = db_backups \cup sweep.pending
    /\ sweep' = [sweep EXCEPT !.pc = "sleep", !.pending = {}, !.seen = {},
                              !.printed = <<>>, !.faults = FALSE, !.wait = 3600]
    /\ out' = NoAnswer
    /\ UNCHANGED <<db_apps, analytics, deployed_apps, system_stats, dirs, zips,
                   next_app, next_backup, req, responses, restores>>

(* ---------------------------- specifications --------------------------- *)

\* the thread a new request is handed to: the first free one
FreeThread(w) == req[w].op = "idle" /\ \A v \in 1..(w - 1) : req[v].op # "idle"

Busy ==
    Cardinality({w \in Workers : req[w].op # "idle"}) + (IF sweep.pc = "sleep" THEN 0 ELSE 1)

\* a deploy request arrives
ArriveDeploy(cap, forms) ==
    /\ Busy < MaxConcurrent
    /\ \/ \E w \in Workers : FreeThread(w) /\ DeployReject(w)
       \/ \E w \in Workers, f \in forms :
             FreeThread(w)
                /\ DeployAllocate(w, cap, f.type, f.name, f.upload, f.pkg, Supplied(f))

\* a delete request arrives
ArriveDelete ==
    /\ Busy < MaxConcurrent
    /\ \E w \in Workers, id \in 1..next_app : FreeThread(w) /\ DeleteStart(w, id)

\* a restore request arrives
ArriveRestore ==
    /\ Busy < MaxConcurrent
    /\ \E w \in Workers, id \in 1..next_app, bid \in 1..next_backup :
          FreeThread(w) /\ RestoreStart(w, id, bid)

\* the backup thread wakes
ArriveSweep == Busy < MaxConcurrent /\ SweepStart(FALSE)

\* the backup thread wakes while the storage may fail
ArriveFaultySweep == Busy < MaxConcurrent /\ SweepStart(TRUE)

\* a deploy in progress takes its next step
ProceedDeploy ==
    \/ \E w \in Workers : DeployMaterialize(w)
    \/ \E w \in Workers : DeploySave(w)
    \/ \E w \in Workers : DeployUpdateConfig(w)
    \/ \E w \in Workers : DeployTrack(w)
    \/ \E w \in Workers : DeployBackupBegin(w)
    \/ \E w \in Workers : DeployBackupEnd(w)

\* a delete in progress takes its next step
ProceedDelete ==
    \/ \E w \in Workers : DeleteRmTree(w)
    \/ \E w \in Workers : DeleteUpdateConfig(w)

\* a restore in progress takes its next step
ProceedRestore ==
    \/ \E w \in Workers : RestoreRmTree(w)
    \/ \E w \in Workers : RestoreExtract(w)
    \/ \E w \in Workers : RestoreTrack(w)

\* the sweep in progress takes its next step
ProceedSweep == SweepBegin \/ SweepEnd \/ SweepCommit

Next ==
    \/ ArriveDeploy(MaxApps, CoreForms) \/ ProceedDeploy
    \/ ArriveDelete \/ ProceedDelete
    \/ ArriveRestore \/ ProceedRestore
    \/ ArriveSweep \/ ProceedSweep

\* deploys, deletes, restores and sweeps interleave freely
Spec == Init /\ [][Next]_vars

NextDeploy == ArriveDeploy(MaxDeploys, DeployForms) \/ ProceedDeploy

\* deploys of every form interleave freely
SpecDeploy == Init /\ [][NextDeploy]_vars

Quiet == (\A w \in Workers : req[w].op = "idle") /\ sweep.pc = "sleep"

NextSeq ==
    \/ Quiet /\ (ArriveDeploy(MaxDeploys, DeployForms) \/ ArriveDelete)
    \/ ProceedDeploy \/ ProceedDelete

\* one deploy or delete at a time, each run to completion
SpecSeq == Init /\ [][NextSeq]_vars

(* ------------------------- concurrent deployments --------------------- *)

\* C1: any two deployments whose display names slugify identically are
\* returned application records with different domains, however their
\* steps interleave.
C1_DistinctDomains ==
    \A i, j \in DOMAIN responses :
        (i # j /\ CleanName(responses[i].name) = CleanName(responses[j].name))
            => responses[i].domain # responses[j].domain

\* C2: an application record, once persisted, stays in the applications
\* table with all its fields unchanged: a later persist of the same domain
\* fails instead of overwriting or removing it.
C2_FirstRecordKept == [][\A r \in db_apps : r \in db_apps']_vars

\* C8: in every reachable state no two rows of the applications table have
\* the same domain and no two have the same id.
C8_UniqueIdAndDomain ==
    \A r1, r2 \in db_apps : (r1.id = r2.id \/ r1.domain = r2.domain) => r1 = r2

\* two deployments were persisted and counted, one of the two was deleted,
\* a restore and a sweep have run
C8_Witness ==
    /\ Cardinality(db_apps) = 2
    /\ system_stats.eternal_apps = 2
    /\ system_stats.total_apps = 1
    /\ restores = 1
    /\ sweep.runs = 1 /\ sweep.pc = "sleep"

(* ------------------------------ clean-up ------------------------------ *)

NoRecord(id) == (\A r \in db_apps : r.id # id) /\ id \notin DOMAIN deployed_apps

\* C3: when delete(id) has answered success, no applications row with that
\* id remains, the directory is gone and get-application(id) finds nothing.
C3_DeleteRemovesRecord ==
    (out.op = "delete" /\ out.status = "ok")
        => NoRecord(out.id) /\ out.id \notin DOMAIN dirs

\* C4: when a deploy has answered the error of a failed extraction, no
\* application record exists for its id, in the applications table or in
\* deployed_apps, and no directory for that id is on disk.
C4_FailedDeployLeavesNothing ==
    (out.op = "deploy" /\ out.status = "archive_error")
        => NoRecord(out.id) /\ out.id \notin DOMAIN dirs

\* C9: between operations, every applications row whose status is
\* 'running' has an existing directory at its path.
C9_RunningHasDirectory ==
    Quiet => \A r \in db_apps : r.status = "running" => r.path \in DOMAIN dirs

(* ------------------------------- restore ------------------------------- *)

\* C5: when a restore has failed while extracting, the application's
\* directory is as it was when the restore began.
C5_FailedRestoreKeepsDirectory ==
    (out.op = "restore" /\ out.status = "error") => DirState(out.id) = out.before

\* C6: when a restore has answered success, the application's directory
\* holds exactly the files of the chosen snapshot.
C6_RestoredDirectoryIsSnapshot ==
    (out.op = "restore" /\ out.status = "ok")
        => DirState(out.id) = [exists |-> TRUE, files |-> zips[out.bid]]

\* the requests and the sweep that have passed their look-ups and have not
\* finished their work on the directory of application id
UsingDirectory(id) ==
    {w \in Workers :
        /\ req[w].id = id
        /\ \/ req[w].op = "delete" /\ req[w].pc = "rmtree"
           \/ req[w].op = "restore" /\ req[w].pc \in {"rmtree", "extract"}
           \/ req[w].op = "deploy" /\ req[w].pc = "archiving"}
    \cup {t \in {"sweep"} : sweep.pc = "archiving" /\ sweep.cur = id}

\* C7: in no reachable state are two of delete, restore and the backup
\* snapshot (of the sweep or of deploy) in progress on the same
\* application directory.
C7_DirectoryOpsExclusive ==
    \A id \in 1..next_app : Cardinality(UsingDirectory(id)) <= 1

(* ------------------------- deployments in sequence ---------------------- *)

\* the deploys answered i-th and next carried the same display name
SameNameTwice(i) ==
    i \in DOMAIN responses /\ i + 1 \in DOMAIN responses
        /\ responses[i].name = responses[i + 1].name

FirstTwoDomains(clean) == {PlainDomain(clean), NumberedDomain(clean, 1)}

\* C10 as stated: of two deploys of the same display name in sequence, the
\* records have distinct ids and domains, the first slug+suffix and the
\* second slug-1+suffix.
C10_SlugThenSlug1 ==
    \A i \in DOMAIN responses :
        SameNameTwice(i) =>
            /\ responses[i].id # responses[i + 1].id
            /\ responses[i].domain = PlainDomain(CleanName(responses[i].name))
            /\ responses[i + 1].domain = NumberedDomain(CleanName(responses[i].name), 1)

\* no application deployed before the i-th holds slug+suffix or slug-1+suffix
SlugUnused(i) ==
    \A k \in 1..(i - 1) :
        responses[k].domain \notin FirstTwoDomains(CleanName(responses[i].name))

\* C10, amended: of two deploys of the same display name in sequence, the
\* records have distinct ids and distinct domains; when no earlier
\* application holds slug+suffix or slug-1+suffix, the first gets
\* slug+suffix and the second slug-1+suffix.
C10_DistinctAndSlugWhenUnused ==
    \A i \in DOMAIN responses :
        SameNameTwice(i) =>
            /\ responses[i].id # responses[i + 1].id
            /\ responses[i].domain # responses[i + 1].domain
            /\ SlugUnused(i) =>
                  /\ responses[i].domain = PlainDomain(CleanName(responses[i].name))
                  /\ responses[i + 1].domain =
                        NumberedDomain(CleanName(responses[i].name), 1)

\* the same name was deployed twice in sequence with the slug unused, and
\* again with the slug taken
C10_Witness ==
    /\ Len(responses) = 3
    /\ SameNameTwice(1) /\ SlugUnused(1)
    /\ SameNameTwice(2) /\ ~SlugUnused(2)

(* --------------------------- domain allocation ------------------------- *)

NextNames == (Quiet /\ ArriveDeploy(MaxDeploys, NameForms)) \/ ProceedDeploy

\* html deploys under every name, one at a time
SpecNames == Init /\ [][NextNames]_vars

StoredDomains == {r.domain : r \in db_apps}

\* the numbers k >= 1 for which slug-k+suffix is not in the store
FreeNumbers(clean) ==
    {k \in 1..(Cardinality(db_apps) + 1) : NumberedDomain(clean, k) \notin StoredDomains}

\* slug+suffix when the store does not hold it, else slug-k+suffix for the
\* smallest free k
FirstFreeDomain(clean) ==
    IF PlainDomain(clean) \notin StoredDomains
    THEN PlainDomain(clean)
    ELSE NumberedDomain(clean, CHOOSE k \in FreeNumbers(clean) :
                                   \A j \in FreeNumbers(clean) : k <= j)

\* the deploys that hold a domain generate_domain has just returned
Allocating == {w \in Workers : req[w].op = "deploy" /\ req[w].pc = "materialize"}

\* C11: the domain generate_domain returns is slug+suffix when the store
\* does not hold it, otherwise slug-k+suffix for the smallest k >= 1 the
\* store does not hold; the store does not hold the returned domain.
C11_FirstFreeDomain ==
    \A w \in Allocating :
        /\ req[w].domain = FirstFreeDomain(CleanName(req[w].name))
        /\ req[w].domain \notin StoredDomains

\* a deploy was given slug-2 with slug and slug-1 stored, or slug-1 with
\* slug and slug-2 stored
C11_Witness ==
    \E w \in Allocating :
        LET clean == CleanName(req[w].name) IN
        /\ PlainDomain(clean) \in StoredDomains
        /\ \/ /\ req[w].domain = NumberedDomain(clean, 2)
              /\ NumberedDomain(clean, 1) \in StoredDomains
           \/ /\ req[w].domain = NumberedDomain(clean, 1)
              /\ NumberedDomain(clean, 2) \in StoredDomains

\* whitespace characters, and the characters a slug is stated to keep
Whitespace == {" ", "TAB"}
SlugAlphabet == LowerAscii \cup Digits \cup {"-"}

StatedSlugChar(c) == IF c \in Whitespace \cup {"_"} THEN "-" ELSE Lower(c)

InSlugAlphabet(c) == c \in SlugAlphabet

\* the name lower-cased, whitespace and underscores made hyphens, every
\* character outside [a-z0-9-] removed
StatedSlug(app_name) ==
    SelectSeq([i \in 1..Len(app_name) |-> StatedSlugChar(app_name[i])], InSlugAlphabet)

\* C12: the slug part of an allocated domain is the display name
\* lower-cased, with every whitespace character and underscore replaced by
\* a hyphen and every character outside [a-z0-9-] removed; the domain is
\* that slug (numbered when taken) followed by .ntando.store.
C12_StatedSlug ==
    \A w \in Allocating :
        LET slug == StatedSlug(req[w].name) IN
        \/ req[w].domain = PlainDomain(slug)
        \/ \E k \in 1..(Cardinality(db_apps) + 1) : req[w].domain = NumberedDomain(slug, k)

(* ------------------------------ round trip ----------------------------- *)

NextFields ==
    \/ Quiet /\ (ArriveDeploy(MaxApps, FieldForms) \/ ArriveDelete)
    \/ ProceedDeploy \/ ProceedDelete

\* deploys through both routes with the optional fields, and deletes, one
\* request at a time
SpecFields == Init /\ [][NextFields]_vars

\* get_app_info(id) is not None
Deployed(id) == id \in DOMAIN deployed_apps

\* get_app_info(id), for a deployed id
get_app_info(id) == deployed_apps[id]

\* the values a request supplied, a field not sent standing for its default
SuppliedDescription(fields) == FormGet(fields.description, "")
SuppliedPublic(fields) == FormGet(fields.public, "true") \in {"true", "TRUE"}
SuppliedCommand(fields) == FormGet(fields.start_command, "node server.js")

\* C13: when a deploy has returned its record, get-application of the
\* returned id yields a record whose name, type, description, public flag
\* and (nodejs) start command are the values the request supplied.
C13_RoundTrip ==
    (out.op = "deploy" /\ out.status = "ok") =>
        LET app == get_app_info(out.id) IN
        /\ Deployed(out.id)
        /\ app.name = out.name /\ app.type = out.type
        /\ app.description = SuppliedDescription(out.fields)
        /\ app.public = SuppliedPublic(out.fields)
        /\ app.type = "nodejs" => app.command = SuppliedCommand(out.fields)

(* ----------------------------- backup sweep ---------------------------- *)

NextSweep ==
    \/ Quiet /\ (ArriveDeploy(MaxDeploys, CoreForms) \/ ArriveDelete \/ ArriveFaultySweep)
    \/ ProceedDeploy \/ ProceedDelete \/ ProceedSweep

\* deploys, deletes and a sweep on storage that may fail, one at a time
SpecSweep == Init /\ [][NextSweep]_vars

\* the step with which a sweep ends
SweepEnds == sweep.pc # "sleep" /\ sweep'.pc = "sleep"

\* the backup records the ending sweep has added for application a
NewBackups(a) == {b \in db_backups' \ db_backups : b.app_id = a}

\* the sweep printed that the backup of a failed; it printed a line about a
PrintedFailed(a) == \E i \in DOMAIN sweep.printed : sweep.printed[i] = <<"failed", a>>
PrintedAbout(a) == \E i \in DOMAIN sweep.printed : sweep.printed[i][2] = a

\* C14: a sweep in which no snapshot fails adds exactly one backup record
\* for every running application whose directory exists and none for one
\* whose directory is missing, whose skip it logs; it adds records for no
\* other application.
C14_OneBackupPerDirectory ==
    [][(SweepEnds /\ \A a \in sweep.seen : ~PrintedFailed(a)) =>
          /\ \A a \in sweep.seen :
                IF a \in DOMAIN dirs
                THEN Cardinality(NewBackups(a)) = 1
                ELSE NewBackups(a) = {} /\ PrintedAbout(a)
          /\ \A b \in db_backups' \ db_backups : b.app_id \in sweep.seen]_vars

\* C15: when a sweep ends, every running application it selected whose
\* directory exists and whose own snapshot did not fail has a committed
\* backup record of this sweep, whatever failed for other applications.
C15_FailureIsolated ==
    [][SweepEnds =>
          \A a \in sweep.seen :
              (a \in DOMAIN dirs /\ ~PrintedFailed(a)) => NewBackups(a) # {}]_vars

\* a sweep has failed on one application and afterwards recorded the
\* backup of another, and has no application left
C15_Witness ==
    /\ sweep.pc = "loop" /\ sweep.todo = {}
    /\ \E i, j \in DOMAIN sweep.printed :
          /\ i < j
          /\ sweep.printed[i][1] = "failed" /\ sweep.printed[j][1] = "created"
          /\ \E b \in sweep.pending : b.app_id = sweep.printed[j][2]

(* --------------------------- deploy, step by step ---------------------- *)

\* C16: a nodejs deploy whose upload was extracted answers with its
\* record, and the applications table holds its row with status 'running',
\* whether npm install succeeded, exited non-zero or could not be started.
C16_NpmFailureNonFatal ==
    (out.op = "deploy" /\ out.type = "nodejs" /\ out.status # "archive_error") =>
        /\ out.status = "ok"
        /\ \E r \in db_apps : r.id = out.id /\ r.status = "running"

\* what a deploy may allocate, create, persist, count or record
Durable ==
    <<db_apps, db_backups, analytics, deployed_apps, system_stats, dirs, zips,
      next_app, next_backup, responses>>

\* C17: the step that rejects a deploy request without an uploaded file
\* changes nothing: no token or domain is allocated, no directory created,
\* no record persisted, no counter changed, no event or backup written.
C17_RejectChangesNothing ==
    [][(out'.op = "deploy" /\ out'.status = "bad_request") => UNCHANGED Durable]_vars

\* a request without a file was rejected while an application is stored
\* and another deploy is in progress
C17_Witness ==
    /\ out.op = "deploy" /\ out.status = "bad_request"
    /\ db_apps # {}
    /\ \E w \in Workers : req[w].op = "deploy"

\* list_apps()
list_apps == deployed_apps

\* its "available": not domain_exists
Available(candidate) == ~domain_exists(CheckedDomain(candidate), db_apps)

\* the deploys that have not reached save_application_to_db's insert
Unsaved == {w \in Workers : req[w].op = "deploy" /\ req[w].pc \in {"materialize", "save"}}

\* C18: while a deploy has not persisted its record, get-application of
\* its id finds nothing, list-applications does not contain it,
\* check-domain-availability reports its domain free, and no sweep has
\* selected it or is archiving it.
C18_UnsavedIsInvisible ==
    \A w \in Unsaved :
        /\ ~Deployed(req[w].id)
        /\ req[w].id \notin DOMAIN list_apps
        /\ Available(req[w].domain)
        /\ req[w].id \notin sweep.seen /\ sweep.cur # req[w].id

\* C19: when a deploy has returned its record, the config holds the
\* application, the analytics table holds exactly one deploy event for its
\* id, and the backups table holds at least one record for its id.
C19_ReturnedDeployHasBackup ==
    (out.op = "deploy" /\ out.status = "ok") =>
        /\ Deployed(out.id)
        /\ EventCount(analytics, out.id, "deploy") = 1
        /\ \E b \in db_backups : b.app_id = out.id

\* C20: no step of deploy, delete, restore or sweep removes or changes a
\* backup record: every record of the backups table is in the table, with
\* the same id, application id, path and size, after the step.
C20_BackupsOnlyGrow == [][\A b \in db_backups : b \in db_backups']_vars

\* a backup record whose application has been deleted (config entry and
\* directory gone), next to a record written later by a sweep or a deploy
C20_Witness ==
    \E b \in db_backups :
        /\ b.app_id \notin DOMAIN deployed_apps
        /\ b.app_id \notin DOMAIN dirs
        /\ \E c \in db_backups : c.id > b.id

NextManifest ==
    \/ Quiet /\ ArriveDeploy(MaxDeploys, ManifestForms)
    \/ ProceedDeploy

\* nodejs deploys, one request at a time
SpecManifest == Init /\ [][NextManifest]_vars

\* C21: when a nodejs deploy has returned its record, the package.json in
\* the application directory is the supplied text when package_json was
\* sent, and otherwise the basic manifest whose start script is the
\* start command the request supplied.
C21_ManifestOnDisk ==
    (out.op = "deploy" /\ out.status = "ok" /\ out.type = "nodejs") =>
        /\ "package.json" \in dirs[out.id]
        /\ out.manifest =
              IF out.pkg THEN [origin |-> "supplied", start |-> ""]
              ELSE [origin |-> "basic", start |-> SuppliedCommand(out.fields)]

\* a request for an application's content arrives and is answered
ArriveServe == \E id \in 1..next_app : serve_app(id)

\* a request that reads an application's record, analytics or backups
ArriveRead ==
    \E id \in 1..next_app : app_analytics(id) \/ app_backups(id) \/ get_app_api(id)

NextServe ==
    \/ Quiet /\ (ArriveDeploy(MaxApps, ServeForms) \/ ArriveDelete \/ ArriveRestore)
    \/ Quiet /\ (ArriveServe \/ ArriveRead)
    \/ ProceedDeploy \/ ProceedDelete \/ ProceedRestore

\* html deploys, deletes, restores and reads, one request at a time
SpecServe == Init /\ [][NextServe]_vars

\* C22: serve-application answers NotFound for an id that is not deployed;
\* for a deployed html application it sends index.html when the directory
\* holds it, otherwise one of the directory's html files, otherwise
\* NotFound; it never ends in an unhandled error.
C22_ServeResolves ==
    out.op = "serve" =>
        /\ out.status # "error"
        /\ out.id \notin DOMAIN deployed_apps => out.status = "not_found"
        /\ (out.id \in DOMAIN deployed_apps /\ deployed_apps[out.id].type = "html") =>
              LET files == IF out.id \in DOMAIN dirs THEN dirs[out.id] ELSE {} IN
              IF "index.html" \in files
              THEN out.status = "ok" /\ out.file = "index.html"
              ELSE IF \E f \in files : EndsWithHtml(f)
              THEN out.status = "ok" /\ out.file \in files /\ EndsWithHtml(out.file)
              ELSE out.status = "not_found"

(* ----------------------------- backup task ----------------------------- *)

\* backup_task's next step: it wakes into a sweep or into a call that
\* raises, or the sweep in progress goes on
BackupTask ==
    \/ Busy < MaxConcurrent /\ SweepWake(MaxLiveSweeps, FALSE)
    \/ Busy < MaxConcurrent /\ SweepRaises(MaxLiveSweeps)
    \/ ProceedSweep

NextLive ==
    \/ (\A w \in Workers : req[w].op = "idle")
          /\ (ArriveDeploy(MaxApps, CoreForms) \/ ArriveDelete)
    \/ ProceedDeploy \/ ProceedDelete
    \/ BackupTask

\* deploys and deletes, one request at a time, beside the backup thread;
\* every thread that can take a step eventually takes one
SpecLive ==
    /\ Init /\ [][NextLive]_vars
    /\ WF_vars(BackupTask) /\ WF_vars(ProceedDeploy) /\ WF_vars(ProceedDelete)

BackupCount(a) == Cardinality({b \in db_backups : b.app_id = a})

\* the task is asleep and at least one of the sweeps still to come does
\* not raise
SweepToCome ==
    /\ sweep.pc = "sleep"
    /\ MaxLiveSweeps - sweep.runs > MaxRaises - sweep.raised

\* C23: the backup task goes on after a sweep that raised: within the
\* sweeps modelled, every attempt is followed by another, and an
\* application that is running with its directory while a sweep that does
\* not raise is still to come gets a further backup record, unless it
\* stops being running or loses its directory.
C23_TaskKeepsSweeping ==
    /\ \A n \in 0..(MaxLiveSweeps - 1) : (sweep.runs = n) ~> (sweep.runs = n + 1)
    /\ \A a \in 1..MaxApps, k \in 0..(MaxLiveSweeps + 1) :
          (a \in RunningApps /\ a \in DOMAIN dirs /\ BackupCount(a) = k /\ SweepToCome)
             ~> (BackupCount(a) > k \/ a \notin RunningApps \/ a \notin DOMAIN dirs)

\* a sweep raised, the task waited and swept again, and that sweep has
\* committed a further backup record for an application
C23_Witness ==
    /\ sweep.raised > 0 /\ sweep.pc = "sleep" /\ sweep.wait = 3600
    /\ \E a \in RunningApps : a \in DOMAIN dirs /\ BackupCount(a) >= 2

(* ---------------------------- domain check ----------------------------- *)

\* a check-domain-availability request arrives and is answered
ArriveCheck == \E candidate \in Candidates : check_domain_availability(candidate)

NextCheck ==
    \/ Quiet /\ ArriveDeploy(MaxChecked, CheckForms)
    \/ Quiet /\ ArriveCheck
    \/ ProceedDeploy

\* html deploys and domain checks, one request at a time
SpecCheck == Init /\ [][NextCheck]_vars

\* the candidate with the suffix appended when it lacks it
WithSuffix(candidate) ==
    IF Len(candidate) > 0 /\ <<candidate[Len(candidate)]>> = BaseDomain
    THEN candidate ELSE candidate \o BaseDomain

LowerCased(text) == [i \in 1..Len(text) |-> Lower(text[i])]

\* when not available, at most 3 suggestions, none of them stored; when
\* available, none
SuggestionsAsStated ==
    IF out.check.available THEN out.check.suggestions = <<>>
    ELSE /\ Len(out.check.suggestions) <= 3
         /\ \A i \in DOMAIN out.check.suggestions :
               out.check.suggestions[i] \notin StoredDomains

\* C24 as stated: check-domain-availability reports available exactly when
\* no application record holds the candidate with the suffix appended when
\* it lacks it; the suggestions are empty when available and otherwise at
\* most 3 domains no record holds.
C24_AvailableIffCandidateUnheld ==
    out.op = "check" =>
        /\ out.check.available <=> (WithSuffix(out.check.candidate) \notin StoredDomains)
        /\ SuggestionsAsStated

\* C24: check-domain-availability reports available exactly when no
\* application record holds the lower-cased candidate with the suffix
\* appended when it lacks it; the suggestions are empty when available and
\* otherwise at most 3 domains no record holds.
C24_AvailableIffLowerUnheld ==
    out.op = "check" =>
        /\ out.check.available <=>
              (WithSuffix(LowerCased(out.check.candidate)) \notin StoredDomains)
        /\ SuggestionsAsStated

\* a bare candidate was reported taken, and the suggestions pass over the
\* stored -app and -web domains: fewer than 3 are left
C24_Witness ==
    /\ out.op = "check" /\ ~out.check.available
    /\ out.check.candidate = <<"a", "-", "b">>
    /\ Len(out.check.suggestions) \in 1..2
    /\ PlainDomain(CleanName(NameApp)) \in StoredDomains

(* ------------------------------- visits -------------------------------- *)

\* the step is the answer to a request of this kind for application id
Answers(kind, id) == out'.op = kind /\ out'.id = id

VisitsAdded(id) == EventCount(analytics', id, "visit") - EventCount(analytics, id, "visit")

\* C25: a serve-application request appends exactly one visit event for
\* its id; application-analytics, application-backups and get-application
\* requests append none.
C25_OneVisitPerServe ==
    [][\A id \in 1..(MaxApps + 1) :
          /\ Answers("serve", id) => VisitsAdded(id) = 1
          /\ (Answers("analytics", id) \/ Answers("backups", id) \/ Answers("get", id))
                => VisitsAdded(id) = 0]_vars

(* ---------------------------- restore requests -------------------------- *)

\* a backup record with that backup id belongs to that application id, its
\* snapshot file exists, and the application record exists
Restorable(id, bid) ==
    /\ \E b \in db_backups : b.id = bid /\ b.app_id = id /\ b.backup_path \in DOMAIN zips
    /\ \E r \in db_apps : r.id = id

RestoreEvents(table) ==
    {id \in 1..MaxApps : EventCount(table, id, "restore") > 0}

\* C26: a restore request goes on to replace the directory only when a
\* backup record with its backup id belongs to its application id, the
\* snapshot file exists and the application record exists; a restore that
\* reports failure at its check leaves every directory and the analytics
\* unchanged; only a restore for which the three hold changes a
\* directory, and only its success appends a restore event.
C26_RestoreOnlyWhenRestorable ==
    [][/\ \A w \in Workers :
             /\ (req[w].op # "restore" /\ req'[w].op = "restore")
                   => Restorable(req'[w].id, req'[w].bid)
             /\ (req[w].op = "restore" /\ dirs' # dirs)
                   => /\ Restorable(req[w].id, req[w].bid)
                      /\ \A a \in (DOMAIN dirs \cup DOMAIN dirs') \ {req[w].id} :
                            a \in DOMAIN dirs /\ a \in DOMAIN dirs' /\ dirs'[a] = dirs[a]
       /\ (out'.op = "restore" /\ out'.status = "not_found")
             => dirs' = dirs /\ analytics' = analytics
       /\ \A id \in 1..MaxApps :
             EventCount(analytics', id, "restore") # EventCount(analytics, id, "restore")
                => out'.op = "restore" /\ out'.status = "ok" /\ out'.id = id]_vars

\* a restore was refused while backups of two applications exist, and
\* no restore has changed anything
C26_Witness ==
    /\ out.op = "restore" /\ out.status = "not_found"
    /\ Cardinality({b.app_id : b \in db_backups}) = 2
    /\ RestoreEvents(analytics) = {}

(* ---------------------------- delete requests --------------------------- *)

\* C27: a delete request for an id that is not deployed answers NotFound
\* and changes no directory, record or counter; one for a deployed id
\* answers success and the id is no longer deployed, so that a second
\* delete of it answers NotFound.
C27_DeleteUndeployedIsNotFound ==
    [][out'.op = "delete" =>
          IF out'.id \in DOMAIN deployed_apps
          THEN out'.status = "ok" /\ out'.id \notin DOMAIN deployed_apps'
          ELSE /\ out'.status = "not_found"
               /\ UNCHANGED <<db_apps, db_backups, analytics, deployed_apps,
                              system_stats, dirs, zips>>]_vars

(* ------------------------- config and store agree ---------------------- *)

\* C28: between operations, every application of the deployed_apps map
\* has an application record with the same id and the same domain.
C28_ListedHasRecord ==
    Quiet =>
        \A id \in DOMAIN deployed_apps :
            \E r \in db_apps : r.id = id /\ r.domain = deployed_apps[id].domain

(* ------------------------------ counters ------------------------------- *)

DeployedOfType(type) == {id \in DOMAIN deployed_apps : deployed_apps[id].type = type}

\* C29: after completed, non-overlapping deploys and deletes, total_apps
\* is the number of entries of deployed_apps, html_apps and nodejs_apps
\* the numbers of entries of each type, total_apps their sum, and none of
\* them is negative.
C29_CountersMatchDeployed ==
    Quiet =>
        /\ system_stats.total_apps = Cardinality(DOMAIN deployed_apps)
        /\ system_stats.html_apps = Cardinality(DeployedOfType("html"))
        /\ system_stats.nodejs_apps = Cardinality(DeployedOfType("nodejs"))
        /\ system_stats.total_apps = system_stats.html_apps + system_stats.nodejs_apps
        /\ system_stats.total_apps >= 0
        /\ system_stats.html_apps >= 0 /\ system_stats.nodejs_apps >= 0

\* applications of both types were deployed and one of them deleted, a
\* failed deploy was answered, and one of each type is left
C29_Witness ==
    /\ Quiet
    /\ system_stats.eternal_apps = 3
    /\ Cardinality(DeployedOfType("html")) = 1
    /\ Cardinality(DeployedOfType("nodejs")) = 1
    /\ out.op = "delete" /\ out.status = "ok"

====
